---------------------------- MODULE Spec2Model ----------------------------
(***************************************************************************)
(* A model of the graph container of src/src/lib.rs: the node pool         *)
(* (Graph.nodes, a Vec of Adjacency entries), the connect operations, find, *)
(* weak_ref / weak_mut, the traversal iterators, dijkstras and Path.        *)
(*                                                                          *)
(* Pool indices are 0-based as in the source; the pool itself is a TLA+     *)
(* sequence, so the entry of index i is nodes[i + 1].  An Option<X> is a    *)
(* sequence of length at most one: <<>> is None and <<x>> is Some(x).       *)
(* A BTreeMap<usize, E> is the sequence of its <<key, weight>> entries in   *)
(* iteration order (ascending key).                                         *)
(***************************************************************************)
EXTENDS Integers, Sequences, FiniteSets, TLC

\* ------------------------------------------------------------------ bounds
MaxNodes == 3
MaxEdges == 2
MaxWeight == 1

\* Payloads (T = char in tests/weighted.rs).
Values == {"A", "B"}
Letters == <<"A", "B", "C", "D", "E", "F">>

\* WeakNode indices a caller can hold: those of this pool and, from a larger
\* graph, indices past its end.
Handles == 0..MaxNodes

None == <<>>
Some(x) == <<x>>

Range(seq) == {seq[i] : i \in 1..Len(seq)}

VARIABLES
    weightType,  \* the type parameter E of Graph<T, E>: "unit" for (), "u32"
    nodes,       \* Graph.nodes
    before,        \* history: Graph.nodes as it was when the last call began
    op,          \* the last call: its name, arguments, result, whether it panicked
    issued,      \* history: the indices insert has returned, in call order
    path,        \* Option: Path.path of the live Path value
    route,       \* history: <<start, end>> of the dijkstras call that built path
    pathIter,    \* Option: the unread rest of the live PathIterator
    dfs,         \* Option: the live DepthFirst iterator [stack, visited]
    bfs,         \* Option: the live BreadthFirst iterator [queue, visited]
    walkStart,   \* history: the start index of the live traversal
    yielded,     \* history: the indices the live iterator has yielded, in order
    loop,        \* Option: the locals of a dijkstras call inside its main loop
    trail        \* history: per iteration of that loop, the node selected and
                 \* the locals as they were before the iteration

vars == <<weightType, nodes, before, op, issued, path, route, pathIter, dfs,
          bfs, walkStart, yielded, loop, trail>>

\* The locals of dijkstras while it is followed iteration by iteration.
loopVars == <<loop, trail>>

\* The graph is read-only while a Node, iterator or Path borrows it.
borrowVars == <<path, route, pathIter, dfs, bfs, walkStart, yielded>>

\* ------------------------------------------------------- BTreeMap<usize, E>
Keys(m) == [i \in 1..Len(m) |-> m[i][1]]

ContainsKey(m, k) == \E i \in 1..Len(m) : m[i][1] = k

\* m[&k]: the weight stored under k (the caller checks ContainsKey first).
Get(m, k) == m[CHOOSE i \in 1..Len(m) : m[i][1] = k][2]

Below(m, k) == SelectSeq(m, LAMBDA e : e[1] < k)
Above(m, k) == SelectSeq(m, LAMBDA e : e[1] > k)

\* A map that keeps the old entry beside the new one (a Vec push, a multimap).
BTreeInsertDup(m, k, w) ==
    Below(m, k) \o <<<<k, w>>>> \o SelectSeq(m, LAMBDA e : e[1] >= k)

\* A map that keeps its entries in insertion order (a Vec of pairs).
BTreeInsertAtEnd(m, k, w) ==
    SelectSeq(m, LAMBDA e : e[1] /= k) \o <<<<k, w>>>>

\* edges.insert(k, w): the entry of k is replaced if present, else added in
\* key order.
BTreeInsert(m, k, w) ==
    Below(m, k) \o <<<<k, w>>>> \o Above(m, k)

\* ------------------------------------------------------------------- Graph
Adjacency(v, m) == [value |-> v, edges |-> m]

InPool(g, i) == i < Len(g)
Edges(g, i) == g[i + 1].edges
Value(g, i) == g[i + 1].value
Indices(g) == 0..(Len(g) - 1)

RECURSIVE EdgeCountFrom(_, _)
EdgeCountFrom(g, i) ==
    IF i > Len(g) THEN 0 ELSE Len(g[i].edges) + EdgeCountFrom(g, i + 1)
EdgeCount(g) == EdgeCountFrom(g, 1)

\* The one value of (), the weight of an unweighted Graph<T>.
Unit == 0

\* E::default() for E = u32.
EDefault == 0

\* The weights a caller can pass: () alone, or a u32 up to MaxWeight.
WeightsOf(t) == IF t = "unit" THEN {Unit} ELSE 0..MaxWeight

\* A call record.  `old` is history for the connect calls: the weight the
\* start -> end entry held before the call, None for every other call.
Call(name, args, ret, panic) ==
    [name |-> name, args |-> args, ret |-> ret, panic |-> panic, old |-> None]

\* A connect_weighted that replaces the whole edge map of start by the one
\* new entry.
ConnectWeightedFreshMap(g, start, end, weight) ==
    IF ~(start < Len(g)) \/ ~(end < Len(g))
    THEN [panic |-> TRUE, nodes |-> g]
    ELSE [panic |-> FALSE,
          nodes |-> [g EXCEPT ![start + 1].edges = <<<<end, weight>>>>]]

\* A connect_weighted that forgets the bounds check of `end`.
ConnectWeightedNoEndCheck(g, start, end, weight) ==
    IF ~(start < Len(g))
    THEN [panic |-> TRUE, nodes |-> g]
    ELSE [panic |-> FALSE,
          nodes |-> [g EXCEPT ![start + 1].edges = BTreeInsert(@, end, weight)]]

\* Graph::connect_weighted as a function of the pool: both assertions, then
\* the insert.  A failed assertion panics before anything is written.
ConnectWeighted(g, start, end, weight) ==
    IF ~(start < Len(g))
    THEN [panic |-> TRUE, nodes |-> g]
    ELSE IF ~(end < Len(g))
    THEN [panic |-> TRUE, nodes |-> g]
    ELSE [panic |-> FALSE,
          nodes |-> [g EXCEPT ![start + 1].edges = BTreeInsert(@, end, weight)]]

\* An undirected connect that writes start -> end twice.
ConnectUndirectedSameWay(g, start, end, weight) ==
    LET first == ConnectWeighted(g, start, end, weight)
    IN  IF first.panic THEN first
        ELSE ConnectWeighted(first.nodes, start, end, weight)

\* Graph::connect_undirected_weighted / connect_undirected: the directed call
\* start -> end, then — unless that one panicked — the call end -> start.
ConnectUndirected(g, start, end, weight) ==
    LET first == ConnectWeighted(g, start, end, weight)
    IN  IF first.panic THEN first
        ELSE ConnectWeighted(first.nodes, end, start, weight)

\* The sequence the Neighbors iterator of node idx yields: the keys of its edge
\* map in the map's iteration order.
Neighbors(g, idx) == Keys(Edges(g, idx))

\* A scan that returns the last match (rposition).
PositionLast(g, item) ==
    LET hits == {i \in Indices(g) : Value(g, i) = item}
    IN  IF hits = {} THEN None
        ELSE Some(CHOOSE i \in hits : \A j \in hits : j <= i)

\* self.nodes.iter().position(|p| &p.value == item), scanning from index i.
RECURSIVE PositionFrom(_, _, _)
PositionFrom(g, item, i) ==
    IF i >= Len(g) THEN None
    ELSE IF Value(g, i) = item THEN Some(i)
    ELSE PositionFrom(g, item, i + 1)

Position(g, item) == PositionFrom(g, item, 0)

\* An insert that reuses the last slot once the pool is non-empty.
InsertReuse(g, value) ==
    IF Len(g) = 0 THEN [nodes |-> <<Adjacency(value, <<>>)>>, idx |-> 0]
    ELSE [nodes |-> [g EXCEPT ![Len(g)] = Adjacency(value, <<>>)],
          idx |-> Len(g) - 1]

\* Graph::insert as a function of the pool: push an entry with an empty edge
\* map; the handle returned holds the new last index.
Insert(g, value) ==
    [nodes |-> Append(g, Adjacency(value, <<>>)), idx |-> Len(g)]

\* Graph::weak_ref and Graph::weak_mut: the assertion, then the handle.
WeakRef(g, node) ==
    IF ~(node < Len(g)) THEN [panic |-> TRUE, ret |-> None]
    ELSE [panic |-> FALSE, ret |-> Some(node)]

\* Graph::arbitrary_node: a const fn without any check; the handle always
\* holds index 0, whatever the pool's length.
ArbitraryNode(g) == [panic |-> FALSE, ret |-> Some(0)]

\* ----------------------------------------------------------------- actions
\* The weight the start -> end entry held before a connect call (what
\* BTreeMap::insert hands back and connect_weighted drops).
OldWeight(g, start, end) ==
    IF InPool(g, start) /\ ContainsKey(Edges(g, start), end)
    THEN Some(Get(Edges(g, start), end))
    ELSE None

Init ==
    /\ weightType \in {"unit", "u32"}
    /\ nodes = <<>>
    /\ before = <<>>
    /\ op = Call("new", <<>>, None, FALSE)
    /\ issued = <<>>
    /\ path = None
    /\ route = None
    /\ pathIter = None
    /\ dfs = None
    /\ bfs = None
    /\ walkStart = None
    /\ yielded = <<>>
    /\ loop = None
    /\ trail = <<>>

\* A failed assertion unwinds the calling thread: nothing more is called on
\* the graph after a panic.
Running == ~op.panic

\* &mut self: no Path, iterator or running dijkstras call borrows the graph.
\* Writes are followed before the reads: no query or traversal has been
\* started yet either.
Unborrowed ==
    /\ path = None
    /\ pathIter = None
    /\ dfs = None
    /\ bfs = None
    /\ loop = None
    /\ route = None
    /\ walkStart = None

insert ==
    /\ Running
    /\ before' = nodes
    /\ Len(nodes) < MaxNodes
    /\ \E value \in Values :
         LET r == Insert(nodes, value)
         IN  /\ nodes' = r.nodes
             /\ issued' = Append(issued, r.idx)
             /\ op' = Call("insert", <<value>>, Some(r.idx), FALSE)
    /\ UNCHANGED <<weightType, borrowVars, loopVars>>

ConnectStep(name, r, start, end, weight) ==
    /\ Running
    /\ before' = nodes
    /\ Unborrowed
    /\ EdgeCount(r.nodes) <= MaxEdges
    /\ nodes' = r.nodes
    /\ op' = [Call(name, <<start, end, weight>>, None, r.panic)
                 EXCEPT !.old = OldWeight(nodes, start, end)]
    /\ UNCHANGED <<weightType, issued, borrowVars, loopVars>>

connect_weighted ==
    \E start \in Handles, end \in Handles, weight \in WeightsOf(weightType) :
        ConnectStep("connect_weighted",
                    ConnectWeighted(nodes, start, end, weight),
                    start, end, weight)

connect_undirected_weighted ==
    \E start \in Handles, end \in Handles, weight \in WeightsOf(weightType) :
        ConnectStep("connect_undirected_weighted",
                    ConnectUndirected(nodes, start, end, weight),
                    start, end, weight)

\* Graph<T>::connect: only where E = ().
connect ==
    /\ weightType = "unit"
    /\ \E start \in Handles, end \in Handles :
        ConnectStep("connect", ConnectWeighted(nodes, start, end, Unit),
                    start, end, Unit)

\* Graph<T>::connect_undirected: only where E = ().
connect_undirected ==
    /\ weightType = "unit"
    /\ \E start \in Handles, end \in Handles :
        ConnectStep("connect_undirected",
                    ConnectUndirected(nodes, start, end, Unit),
                    start, end, Unit)

\* find and neighbors are followed on a graph nothing else is reading: a
\* reading call changes neither the graph nor what another reader holds.
find ==
    /\ Running
    /\ before' = nodes
    /\ Unborrowed
    /\ \E item \in Values :
         op' = Call("find", <<item>>, Position(nodes, item), FALSE)
    /\ UNCHANGED <<weightType, nodes, issued, borrowVars, loopVars>>

weak_ref ==
    /\ Running
    /\ before' = nodes
    /\ \E node \in Handles :
         LET r == WeakRef(nodes, node)
         IN  op' = Call("weak_ref", <<node>>, r.ret, r.panic)
    /\ UNCHANGED <<weightType, nodes, issued, borrowVars, loopVars>>

weak_mut ==
    /\ Running
    /\ before' = nodes
    /\ \E node \in Handles :
         LET r == WeakRef(nodes, node)
         IN  op' = Call("weak_mut", <<node>>, r.ret, r.panic)
    /\ UNCHANGED <<weightType, nodes, issued, borrowVars, loopVars>>

arbitrary_node ==
    /\ Running
    /\ before' = nodes
    /\ LET r == ArbitraryNode(nodes)
       IN  op' = Call("arbitrary_node", <<>>, r.ret, r.panic)
    /\ UNCHANGED <<weightType, nodes, issued, borrowVars, loopVars>>

\* node.neighbors() run to its end, for a strong handle of this graph: any
\* index of the pool, or the index 0 arbitrary_node hands out.  Indexing
\* nodes[idx] panics when idx is outside the pool.
Node_neighbors ==
    /\ Running
    /\ before' = nodes
    /\ Unborrowed
    /\ \E idx \in Indices(nodes) \cup {0} :
         IF InPool(nodes, idx)
         THEN op' = Call("neighbors", <<idx>>, Some(Neighbors(nodes, idx)), FALSE)
         ELSE op' = Call("neighbors", <<idx>>, None, TRUE)
    /\ UNCHANGED <<weightType, nodes, issued, borrowVars, loopVars>>

Next ==
    \/ insert
    \/ connect_weighted
    \/ connect_undirected_weighted
    \/ connect
    \/ connect_undirected
    \/ find
    \/ weak_ref
    \/ weak_mut
    \/ arbitrary_node
    \/ Node_neighbors

Spec == Init /\ [][Next]_vars

\* ---------------------------------------------------------------- dijkstras
\* E: Add and Ord for u32.  The sums stay far below 2^32 within the bounds
\* (at most MaxNodes edges of weight at most MaxWeight), so + never wraps.

\* The comparator handed to min_by, on two tentative distances.
Cmp(a, b) ==
    IF a /= None /\ b = None THEN "Less"
    ELSE IF a = None /\ b = None THEN "Equal"
    ELSE IF a = None /\ b /= None THEN "Greater"
    ELSE IF a[1] < b[1] THEN "Less"
    ELSE IF a[1] > b[1] THEN "Greater"
    ELSE "Equal"

\* A selection that keeps the later of two equal elements (a fold on <=).
MinByLast(remaining, distance) ==
    CHOOSE i \in 1..Len(remaining) :
        \A j \in 1..Len(remaining) :
            LET c == Cmp(distance[remaining[i]], distance[remaining[j]])
            IN  c = "Less" \/ (c = "Equal" /\ j <= i)

\* Iterator::min_by over remaining.iter().enumerate(): a left fold that keeps
\* the earlier element unless it compares Greater than the later one.
RECURSIVE MinByFrom(_, _, _, _)
MinByFrom(remaining, distance, best, i) ==
    IF i > Len(remaining) THEN best
    ELSE MinByFrom(remaining, distance,
                   IF Cmp(distance[remaining[best]], distance[remaining[i]])
                        = "Greater"
                   THEN i ELSE best,
                   i + 1)

MinBy(remaining, distance) == MinByFrom(remaining, distance, 1, 2)

\* remaining.remove(next_rem)
Remove(seq, pos) ==
    [i \in 1..(Len(seq) - 1) |-> IF i < pos THEN seq[i] ELSE seq[i + 1]]

\* The state of the main loop: the three vectors and how the loop stands:
\* "run", "break" (break 'outer), "exhausted" (min_by found nothing) or
\* "none" (the ? on distance[next] returned None from dijkstras).
LoopState(remaining, distance, predecessors, status) ==
    [remaining |-> remaining, distance |-> distance,
     predecessors |-> predecessors, status |-> status]

\* The body of `for (step, weight) in &self.nodes[next].edges`, from the
\* j-th entry of the edge map on.
RECURSIVE RelaxFrom(_, _, _, _, _)
RelaxFrom(g, st, next, end, j) ==
    IF j > Len(Edges(g, next)) THEN st
    ELSE IF next = end THEN [st EXCEPT !.status = "break"]
    ELSE IF st.distance[next] = None THEN [st EXCEPT !.status = "none"]
    ELSE LET step == Edges(g, next)[j][1]
             weight == Edges(g, next)[j][2]
             new_weight == st.distance[next][1] + weight
         IN  IF st.distance[step] /= None /\ st.distance[step][1] <= new_weight
             THEN RelaxFrom(g, st, next, end, j + 1)
             ELSE RelaxFrom(g,
                            [st EXCEPT !.distance[step] = Some(new_weight),
                                       !.predecessors[step] = Some(next)],
                            next, end, j + 1)

\* One iteration of 'outer: select, remove, relax.
LoopStep(g, st, end) ==
    IF st.remaining = <<>> THEN [st EXCEPT !.status = "exhausted"]
    ELSE LET next_rem == MinBy(st.remaining, st.distance)
             next == st.remaining[next_rem]
         IN  RelaxFrom(g, [st EXCEPT !.remaining = Remove(@, next_rem)],
                       next, end, 1)

RECURSIVE Loop(_, _, _)
Loop(g, st, end) ==
    IF st.status /= "run" THEN st ELSE Loop(g, LoopStep(g, st, end), end)

\* The vectors before the loop.
LoopInit(g, start) ==
    LoopState([i \in 1..Len(g) |-> i - 1],
              [i \in Indices(g) |-> IF i = start THEN Some(EDefault) ELSE None],
              [i \in Indices(g) |-> None],
              "run")

Reverse(seq) == [i \in 1..Len(seq) |-> seq[Len(seq) + 1 - i]]

\* A walk back that pushes and follows the predecessor before it compares with
\* start (a do-while).
RECURSIVE ReconstructPushFirst(_, _, _, _)
ReconstructPushFirst(predecessors, start, prev, pushed) ==
    IF predecessors[prev] = None THEN None
    ELSE IF predecessors[prev][1] = start
    THEN Some(Reverse(Append(pushed, prev)))
    ELSE ReconstructPushFirst(predecessors, start, predecessors[prev][1],
                              Append(pushed, prev))

\* A walk back that forgets path.reverse().
RECURSIVE ReconstructNoReverse(_, _, _, _)
ReconstructNoReverse(predecessors, start, prev, pushed) ==
    IF prev = start THEN Some(pushed)
    ELSE IF predecessors[prev] = None THEN None
    ELSE ReconstructNoReverse(predecessors, start, predecessors[prev][1],
                              Append(pushed, prev))

\* The walk back over predecessors: push prev, then follow predecessors[prev]?
\* until prev is start.  `pushed` is path before path.reverse().
RECURSIVE Reconstruct(_, _, _, _)
Reconstruct(predecessors, start, prev, pushed) ==
    IF prev = start THEN Some(Reverse(pushed))
    ELSE IF predecessors[prev] = None THEN None
    ELSE Reconstruct(predecessors, start, predecessors[prev][1],
                     Append(pushed, prev))

\* Graph::dijkstras(start, end) for two handles of this graph: Option<Path.path>.
Dijkstras(g, start, end) ==
    LET st == Loop(g, LoopInit(g, start), end)
    IN  IF st.status = "none" THEN None
        ELSE Reconstruct(st.predecessors, start, end, <<>>)

\* Path::len.  self.path.len() - 1 underflows on an empty path: a debug build
\* panics on the subtraction, a release build wraps and panics on path[0].
\* edges[&k] panics when there is no such edge.
RECURSIVE LenFrom(_, _, _, _)
LenFrom(g, p, i, len) ==
    IF i >= Len(p) THEN [panic |-> FALSE, ret |-> Some(len)]
    ELSE IF ~ContainsKey(Edges(g, p[i]), p[i + 1])
    THEN [panic |-> TRUE, ret |-> None]
    ELSE LenFrom(g, p, i + 1, len + Get(Edges(g, p[i]), p[i + 1]))

PathLen(g, p) ==
    IF Len(p) = 0 THEN [panic |-> TRUE, ret |-> None]
    ELSE LenFrom(g, p, 1, EDefault)

\* --------------------------------------------------- graphs already built
\* The entries of one node's edge map, given the set of its destinations.
RECURSIVE EntriesOf(_, _, _)
EntriesOf(dests, w, i) ==
    IF dests = {} THEN <<>>
    ELSE LET k == CHOOSE d \in dests : \A e \in dests : d <= e
         IN  <<<<k, w[<<i, k>>]>>>> \o EntriesOf(dests \ {k}, w, i)

Built(n, pairs, w) ==
    [i \in 1..n |->
        Adjacency(Letters[i],
                  EntriesOf({k \in 0..(n - 1) : <<i - 1, k>> \in pairs}, w, i - 1))]

\* Any Graph<char, u32> that inserts and connects can have built: up to
\* MaxNodes nodes 'A', 'B', ... and up to MaxEdges weighted edges.
InitGraph ==
    /\ weightType = "u32"
    /\ \E n \in 1..MaxNodes :
         \E pairs \in {s \in SUBSET ((0..(n - 1)) \X (0..(n - 1))) :
                          Cardinality(s) <= MaxEdges} :
           \E w \in [pairs -> WeightsOf("u32")] :
               nodes = Built(n, pairs, w)
    /\ before = nodes
    /\ op = Call("new", <<>>, None, FALSE)
    /\ issued = <<>>
    /\ path = None
    /\ route = None
    /\ pathIter = None
    /\ dfs = None
    /\ bfs = None
    /\ walkStart = None
    /\ yielded = <<>>
    /\ loop = None
    /\ trail = <<>>

\* The same with one more edge: room for a node that is reached over one edge
\* and reached again, cheaper, over two others.
InitRelax ==
    /\ weightType = "u32"
    /\ \E n \in 1..MaxNodes :
         \E pairs \in {s \in SUBSET ((0..(n - 1)) \X (0..(n - 1))) :
                          Cardinality(s) <= MaxEdges + 1} :
           \E w \in [pairs -> WeightsOf("u32")] :
               nodes = Built(n, pairs, w)
    /\ before = nodes
    /\ op = Call("new", <<>>, None, FALSE)
    /\ issued = <<>>
    /\ path = None
    /\ route = None
    /\ pathIter = None
    /\ dfs = None
    /\ bfs = None
    /\ walkStart = None
    /\ yielded = <<>>
    /\ loop = None
    /\ trail = <<>>

\* make_graph() of tests/weighted.rs: 'A', 'B', 'C' inserted in that order,
\* then the undirected edges A-C = 3, A-B = 1, B-C = 1.
MakeGraph ==
    LET a == Insert(<<>>, "A")
        b == Insert(a.nodes, "B")
        c == Insert(b.nodes, "C")
        ac == ConnectUndirected(c.nodes, a.idx, c.idx, 3)
        ab == ConnectUndirected(ac.nodes, a.idx, b.idx, 1)
        bc == ConnectUndirected(ab.nodes, b.idx, c.idx, 1)
    IN  bc.nodes

InitMakeGraph ==
    /\ weightType = "u32"
    /\ nodes = MakeGraph
    /\ before = nodes
    /\ op = Call("new", <<>>, None, FALSE)
    /\ issued = <<0, 1, 2>>
    /\ path = None
    /\ route = None
    /\ pathIter = None
    /\ dfs = None
    /\ bfs = None
    /\ walkStart = None
    /\ yielded = <<>>
    /\ loop = None
    /\ trail = <<>>

graphVars == <<weightType, nodes, issued>>

\* One shortest-path query per behaviour: dijkstras only reads the graph, so
\* a later call returns what it would have returned as the first.
dijkstras ==
    /\ Running
    /\ route = None
    /\ walkStart = None
    /\ before' = nodes
    /\ \E start \in Indices(nodes), end \in Indices(nodes) :
         LET r == Dijkstras(nodes, start, end)
         IN  /\ op' = Call("dijkstras", <<start, end>>, r, FALSE)
             /\ path' = r
             /\ route' = <<start, end>>
    /\ pathIter' = None
    /\ yielded' = <<>>
    /\ UNCHANGED <<graphVars, dfs, bfs, walkStart, loopVars>>

Path_len ==
    /\ Running
    /\ before' = nodes
    /\ path /= None
    /\ LET r == PathLen(nodes, path[1])
       IN  op' = Call("len", <<>>, r.ret, r.panic)
    /\ UNCHANGED <<graphVars, borrowVars, loopVars>>

\* Path::iter / into_iter: a PathIterator over the whole path.
Path_iter ==
    /\ Running
    /\ before' = nodes
    /\ path /= None
    /\ pathIter' = Some(path[1])
    /\ yielded' = <<>>
    /\ op' = Call("iter", <<>>, None, FALSE)
    /\ UNCHANGED <<graphVars, path, route, dfs, bfs, walkStart, loopVars>>

PathIterator_next ==
    /\ Running
    /\ before' = nodes
    /\ pathIter /= None
    /\ IF pathIter[1] = <<>>
       THEN /\ op' = Call("PathIterator::next", <<>>, None, FALSE)
            /\ UNCHANGED <<pathIter, yielded>>
       ELSE /\ op' = Call("PathIterator::next", <<>>, Some(Head(pathIter[1])), FALSE)
            /\ pathIter' = Some(Tail(pathIter[1]))
            /\ yielded' = Append(yielded, Head(pathIter[1]))
    /\ UNCHANGED <<graphVars, path, route, dfs, bfs, walkStart, loopVars>>

NextPath ==
    \/ dijkstras
    \/ Path_len
    \/ Path_iter
    \/ PathIterator_next

SpecPath == InitGraph /\ [][NextPath]_vars

\* graph.find(&c) for a char c, as test_dijkstras calls it while a Path may
\* be alive.
find_char ==
    /\ Running
    /\ before' = nodes
    /\ \E item \in Range(Letters) :
         op' = Call("find", <<item>>, Position(nodes, item), FALSE)
    /\ UNCHANGED <<graphVars, borrowVars, loopVars>>

NextMakeGraph ==
    \/ find_char
    \/ dijkstras
    \/ Path_len
    \/ Path_iter
    \/ PathIterator_next

\* The queries of test_dijkstras on the graph of make_graph().
SpecMakeGraph == InitMakeGraph /\ [][NextMakeGraph]_vars

\* ------------------------------------------- dijkstras, step by step
\* The same call followed through its main loop, one iteration of 'outer per
\* step.  The call is synchronous: nothing else is called on the graph
\* between two of its iterations, and a behaviour follows either one
\* shortest-path query or traversals, which only read the graph and so do not
\* change what the other does.

\* Entry: the assertions hold for two handles of this graph; remaining,
\* distance and predecessors are set up.
dijkstras_enter ==
    /\ Running
    /\ before' = nodes
    /\ loop = None
    /\ route = None
    /\ walkStart = None
    /\ \E start \in Indices(nodes), end \in Indices(nodes) :
         loop' = Some([start |-> start, end |-> end,
                       st |-> LoopInit(nodes, start)])
    /\ trail' = <<>>
    /\ UNCHANGED <<graphVars, op, borrowVars>>

\* One evaluation of the `while let` head and, when min_by selects a node,
\* one run of the loop body.
dijkstras_select ==
    /\ Running
    /\ before' = nodes
    /\ loop /= None
    /\ loop[1].st.status = "run"
    /\ LET st == loop[1].st
       IN  /\ loop' = Some([loop[1] EXCEPT
                               !.st = LoopStep(nodes, st, loop[1].end)])
           /\ trail' = IF st.remaining = <<>> THEN trail
                       ELSE Append(trail,
                                   [next |-> st.remaining[MinBy(st.remaining,
                                                                st.distance)],
                                    st |-> st])
    /\ UNCHANGED <<graphVars, op, borrowVars>>

\* The way out: the ? inside the loop, or the walk back after it.
dijkstras_return ==
    /\ Running
    /\ before' = nodes
    /\ loop /= None
    /\ loop[1].st.status /= "run"
    /\ LET start == loop[1].start
           end == loop[1].end
           r == IF loop[1].st.status = "none" THEN None
                ELSE Reconstruct(loop[1].st.predecessors, start, end, <<>>)
       IN  /\ op' = Call("dijkstras", <<start, end>>, r, FALSE)
           /\ path' = r
           /\ route' = <<start, end>>
    /\ loop' = None
    /\ pathIter' = None
    /\ yielded' = <<>>
    /\ UNCHANGED <<graphVars, dfs, bfs, walkStart, trail>>

NextLoop ==
    \/ dijkstras_enter
    \/ dijkstras_select
    \/ dijkstras_return

SpecLoop == InitGraph /\ [][NextLoop]_vars

SpecRelax == InitRelax /\ [][NextLoop]_vars

\* --------------------------------------------------------------- traversals
Iter(pending, visited) == [pending |-> pending, visited |-> visited]

\* A loop that pushes every unvisited key without marking it visited.
RECURSIVE DepthFirstPushUnmarked(_, _, _)
DepthFirstPushUnmarked(keys, j, it) ==
    IF j > Len(keys) THEN it
    ELSE IF keys[j] \in it.visited THEN DepthFirstPushUnmarked(keys, j + 1, it)
    ELSE DepthFirstPushUnmarked(keys, j + 1,
                                Iter(Append(it.pending, keys[j]), it.visited))

\* DepthFirst::next, the loop over self.graph.nodes[idx].edges.keys() from the
\* j-th key on: an unvisited key is pushed on the stack and marked visited.
RECURSIVE DepthFirstPush(_, _, _)
DepthFirstPush(keys, j, it) ==
    IF j > Len(keys) THEN it
    ELSE IF keys[j] \in it.visited THEN DepthFirstPush(keys, j + 1, it)
    ELSE DepthFirstPush(keys, j + 1,
                        Iter(Append(it.pending, keys[j]),
                             it.visited \cup {keys[j]}))

\* A loop that enqueues every unvisited neighbor without marking it visited.
RECURSIVE BreadthFirstPushUnmarked(_, _, _)
BreadthFirstPushUnmarked(neighbors, j, it) ==
    IF j > Len(neighbors) THEN it
    ELSE IF neighbors[j] \in it.visited
    THEN BreadthFirstPushUnmarked(neighbors, j + 1, it)
    ELSE BreadthFirstPushUnmarked(neighbors, j + 1,
                                  Iter(Append(it.pending, neighbors[j]),
                                       it.visited))

\* BreadthFirst::next, the loop over next.neighbors() from the j-th neighbor
\* on: an unvisited neighbor is marked visited and pushed on the queue's back.
RECURSIVE BreadthFirstPush(_, _, _)
BreadthFirstPush(neighbors, j, it) ==
    IF j > Len(neighbors) THEN it
    ELSE IF neighbors[j] \in it.visited
    THEN BreadthFirstPush(neighbors, j + 1, it)
    ELSE BreadthFirstPush(neighbors, j + 1,
                          Iter(Append(it.pending, neighbors[j]),
                               it.visited \cup {neighbors[j]}))

\* Node::depth_first: the stack holds the start index, nothing is visited.
depth_first ==
    /\ Running
    /\ before' = nodes
    /\ loop = None
    /\ route = None
    /\ \E start \in Indices(nodes) :
         /\ dfs' = Some(Iter(<<start>>, {}))
         /\ walkStart' = Some(start)
         /\ op' = Call("depth_first", <<start>>, None, FALSE)
    /\ bfs' = None
    /\ yielded' = <<>>
    /\ UNCHANGED <<graphVars, path, route, pathIter, loopVars>>

\* Node::breadth_first: the queue holds the start node, nothing is visited.
breadth_first ==
    /\ Running
    /\ before' = nodes
    /\ loop = None
    /\ route = None
    /\ \E start \in Indices(nodes) :
         /\ bfs' = Some(Iter(<<start>>, {}))
         /\ walkStart' = Some(start)
         /\ op' = Call("breadth_first", <<start>>, None, FALSE)
    /\ dfs' = None
    /\ yielded' = <<>>
    /\ UNCHANGED <<graphVars, path, route, pathIter, loopVars>>

DepthFirst_next ==
    /\ Running
    /\ before' = nodes
    /\ dfs /= None
    /\ LET stack == dfs[1].pending
       IN  IF stack = <<>>
           THEN /\ op' = Call("DepthFirst::next", <<>>, None, FALSE)
                /\ UNCHANGED <<dfs, yielded>>
           ELSE LET idx == stack[Len(stack)]
                    popped == Iter(SubSeq(stack, 1, Len(stack) - 1),
                                   dfs[1].visited)
                IN  /\ dfs' = Some(DepthFirstPush(Keys(Edges(nodes, idx)), 1,
                                                  popped))
                    /\ yielded' = Append(yielded, idx)
                    /\ op' = Call("DepthFirst::next", <<>>, Some(idx), FALSE)
    /\ UNCHANGED <<graphVars, path, route, pathIter, bfs, walkStart, loopVars>>

BreadthFirst_next ==
    /\ Running
    /\ before' = nodes
    /\ bfs /= None
    /\ LET queue == bfs[1].pending
       IN  IF queue = <<>>
           THEN /\ op' = Call("BreadthFirst::next", <<>>, None, FALSE)
                /\ UNCHANGED <<bfs, yielded>>
           ELSE LET next == Head(queue)
                    popped == Iter(Tail(queue), bfs[1].visited)
                IN  /\ bfs' = Some(BreadthFirstPush(Neighbors(nodes, next), 1,
                                                    popped))
                    /\ yielded' = Append(yielded, next)
                    /\ op' = Call("BreadthFirst::next", <<>>, Some(next), FALSE)
    /\ UNCHANGED <<graphVars, path, route, pathIter, dfs, walkStart, loopVars>>

NextWalk ==
    \/ depth_first
    \/ breadth_first
    \/ DepthFirst_next
    \/ BreadthFirst_next

SpecWalk == InitGraph /\ [][NextWalk]_vars

\* A graph already built, connected further and then read: every reading
\* operation next to the one that writes edges.
NextFrame ==
    \/ connect_weighted
    \/ find
    \/ Node_neighbors
    \/ depth_first
    \/ breadth_first
    \/ DepthFirst_next
    \/ BreadthFirst_next
    \/ dijkstras
    \/ Path_len

SpecFrame == InitGraph /\ [][NextFrame]_vars

\* Everything that walks the graph: the traversals and the shortest-path loop.
NextFinite ==
    \/ depth_first
    \/ breadth_first
    \/ DepthFirst_next
    \/ BreadthFirst_next
    \/ dijkstras_enter
    \/ dijkstras_select
    \/ dijkstras_return

SpecFinite == InitGraph /\ [][NextFinite]_vars

\* ------------------------------------------------------ reference notions
NoDuplicates(seq) == \A a, b \in 1..Len(seq) : a /= b => seq[a] /= seq[b]

HasEdge(g, u, v) == ContainsKey(Edges(g, u), v)

\* The nodes reachable from the nodes of `set` by directed edges.
RECURSIVE Closure(_, _)
Closure(g, set) ==
    LET more == set \cup {v \in Indices(g) : \E u \in set : HasEdge(g, u, v)}
    IN  IF more = set THEN set ELSE Closure(g, more)

\* start itself and every node a directed route from start leads to.
Reach(g, start) == Closure(g, {start})

\* The hop distance from the nodes of `set` (k hops from the start) to v: the
\* number of the discovery layer v lies in; -1 when no route leads to v.
RECURSIVE HopsFrom(_, _, _, _)
HopsFrom(g, set, v, k) ==
    IF v \in set THEN k
    ELSE LET more == set \cup {x \in Indices(g) : \E u \in set : HasEdge(g, u, x)}
         IN  IF more = set THEN -1 ELSE HopsFrom(g, more, v, k + 1)

Hops(g, start, v) == HopsFrom(g, {start}, v, 0)

\* The least value of a non-empty set of numbers.
Least(set) == CHOOSE x \in set : \A y \in set : x <= y

\* One round of relaxation of every edge (Bellman-Ford), on Option distances.
RelaxAll(g, d) ==
    [v \in Indices(g) |->
        LET cands == (IF d[v] = None THEN {} ELSE {d[v][1]})
                     \cup {d[u][1] + Get(Edges(g, u), v) :
                             u \in {x \in Indices(g) :
                                      d[x] /= None /\ HasEdge(g, x, v)}}
        IN  IF cands = {} THEN None ELSE Some(Least(cands))]

RECURSIVE RelaxRounds(_, _, _)
RelaxRounds(g, d, k) ==
    IF k = 0 THEN d ELSE RelaxRounds(g, RelaxAll(g, d), k - 1)

\* The least total weight of a directed route from start to end (the empty
\* route from a node to itself weighs 0); None when there is no route.
MinDist(g, start, end) ==
    RelaxRounds(g, [v \in Indices(g) |-> IF v = start THEN Some(0) ELSE None],
                Len(g))[end]

\* ------------------------------------------------------------------ claims

\* C1: a path dijkstras(start, end) returns begins with start, ends with end
\* and lists the route's nodes in forward order, start and end included; a
\* PathIterator run to its end has yielded exactly that sequence.  Stated for
\* start /= end; start = end is C10's case.
C1_PathRunsFromStartToEnd ==
    (path /= None /\ route[1] /= route[2]) =>
        LET p == path[1]
        IN  /\ Len(p) >= 1
            /\ p[1] = route[1]
            /\ p[Len(p)] = route[2]
            /\ \A i \in 1..(Len(p) - 1) : HasEdge(nodes, p[i], p[i + 1])
            /\ (pathIter /= None /\ pathIter[1] = <<>>) => yielded = p

\* C2: Path::len() of a path dijkstras(start, end) returned is the least total
\* weight of a directed route from start to end.  Stated for start /= end;
\* start = end is C10's case.
C2_LenIsShortestDistance ==
    (op.name = "len" /\ route[1] /= route[2]) =>
        /\ ~op.panic
        /\ op.ret = MinDist(nodes, route[1], route[2])

\* C3: for start /= end, dijkstras(start, end) returns nothing if and only if
\* no directed route leads from start to end (start = end is C10's case).
C3_NothingIffUnreachable ==
    (op.name = "dijkstras" /\ op.args[1] /= op.args[2]) =>
        (op.ret = None <=> op.args[2] \notin Reach(nodes, op.args[1]))

\* C4: a depth-first or breadth-first traversal yields no node twice and no
\* node unreachable from its start, and once it has ended it has yielded every
\* node reachable from the start.
C4_EachReachableNodeOnce ==
    walkStart /= None =>
        /\ NoDuplicates(yielded)
        /\ Range(yielded) \subseteq Reach(nodes, walkStart[1])
        /\ (op.name \in {"DepthFirst::next", "BreadthFirst::next"}
              /\ op.ret = None)
             => Range(yielded) = Reach(nodes, walkStart[1])

\* Each node's edge map has at most one entry per destination index.
UniqueKeys ==
    \A i \in Indices(nodes) : NoDuplicates(Keys(Edges(nodes, i)))

\* A successful connect_weighted(start, end, w) leaves exactly one
\* start -> end entry, of weight w; when start already had an edge to end the
\* number of its out-edges stays what it was.
ConnectOverwrites ==
    (op.name = "connect_weighted" /\ ~op.panic) =>
        LET start == op.args[1]
            end == op.args[2]
            after == Edges(nodes, start)
        IN  /\ Cardinality({j \in 1..Len(after) : after[j][1] = end}) = 1
            /\ Get(after, end) = op.args[3]
            /\ HasEdge(before, start, end)
                 => Len(after) = Len(Edges(before, start))

\* C5: after any connect calls every node holds at most one edge per
\* destination, and a second connect_weighted(start, end, w2) overwrites the
\* weight without adding an edge.
C5_OneEdgePerDestination == UniqueKeys /\ ConnectOverwrites

\* C5 witness: connect_weighted has just overwritten an edge of another weight.
C5_Witness ==
    /\ op.name = "connect_weighted"
    /\ ~op.panic
    /\ op.old /= None
    /\ op.old[1] /= op.args[3]

UndirectedNames == {"connect_undirected_weighted", "connect_undirected"}

\* C6: for in-bounds start and end an undirected connect succeeds and yields
\* the graph of the two directed calls: both edges exist with the weight
\* given, and each endpoint is among the other's neighbors.
C6_UndirectedIsTwoDirected ==
    op.name \in UndirectedNames =>
        LET start == op.args[1]
            end == op.args[2]
            weight == op.args[3]
        IN  /\ (InPool(before, start) /\ InPool(before, end)) => ~op.panic
            /\ ~op.panic =>
                /\ nodes = ConnectWeighted(
                               ConnectWeighted(before, start, end, weight).nodes,
                               end, start, weight).nodes
                /\ HasEdge(nodes, start, end)
                /\ HasEdge(nodes, end, start)
                /\ Get(Edges(nodes, start), end) = weight
                /\ Get(Edges(nodes, end), start) = weight
                /\ end \in Range(Neighbors(nodes, start))
                /\ start \in Range(Neighbors(nodes, end))
                /\ op.name = "connect_undirected" => weight = Unit

\* C6 witness: an undirected weighted connect of two different nodes went through.
C6_Witness ==
    /\ op.name = "connect_undirected_weighted"
    /\ ~op.panic
    /\ op.args[1] /= op.args[2]

ConnectNames ==
    {"connect_weighted", "connect_undirected_weighted", "connect",
     "connect_undirected"}

\* C7: a connect call, weak_ref or weak_mut given an index at or past the pool
\* length panics, and a panicking call leaves the graph as it was.
C7_OutOfBoundsFails ==
    /\ (op.name \in ConnectNames
          /\ (~InPool(before, op.args[1]) \/ ~InPool(before, op.args[2])))
         => (op.panic /\ nodes = before)
    /\ (op.name \in {"weak_ref", "weak_mut"} /\ ~InPool(before, op.args[1]))
         => (op.panic /\ op.ret = None /\ nodes = before)
    /\ op.panic => nodes = before

\* C7 witness: an undirected connect whose start is in the pool and whose end
\* is not has panicked.
C7_Witness ==
    /\ op.name = "connect_undirected_weighted"
    /\ op.panic
    /\ InPool(nodes, op.args[1])
    /\ ~InPool(nodes, op.args[2])

\* C8: find(item) returns the least index whose payload equals item, and
\* nothing exactly when no payload equals item.
C8_FindFirstMatch ==
    op.name = "find" =>
        LET item == op.args[1]
        IN  /\ op.ret = None <=> \A i \in Indices(nodes) : Value(nodes, i) /= item
            /\ op.ret /= None =>
                /\ op.ret[1] \in Indices(nodes)
                /\ Value(nodes, op.ret[1]) = item
                /\ \A j \in 0..(op.ret[1] - 1) : Value(nodes, j) /= item

\* C8 witness: find returned a node although a later node holds the same payload.
C8_Witness ==
    /\ op.name = "find"
    /\ op.ret /= None
    /\ \E j \in Indices(nodes) :
         j > op.ret[1] /\ Value(nodes, j) = op.args[1]

\* The indices issued so far are strictly increasing and all in the pool.
IssuedInOrder ==
    /\ \A a, b \in 1..Len(issued) : a < b => issued[a] < issued[b]
    /\ \A a \in 1..Len(issued) : InPool(nodes, issued[a])

\* C9: the indices insert returns are distinct and strictly increasing, the
\* pool grows by one per insert and never shrinks, the new node has no edges,
\* and an insert leaves every earlier node's payload and edges as they were.
C9_InsertAppends ==
    /\ IssuedInOrder
    /\ Len(nodes) >= Len(before)
    /\ op.name /= "insert" => Len(nodes) = Len(before)
    /\ op.name = "insert" =>
        /\ Len(nodes) = Len(before) + 1
        /\ op.ret = Some(Len(before))
        /\ issued[Len(issued)] = Len(before)
        /\ Value(nodes, Len(before)) = op.args[1]
        /\ Edges(nodes, Len(before)) = <<>>
        /\ \A i \in Indices(before) : nodes[i + 1] = before[i + 1]

\* C9 witness: an insert after a connect, with an index issued before it.
C9_Witness ==
    /\ op.name = "insert"
    /\ Len(issued) >= 2
    /\ EdgeCount(nodes) > 0

SameNodeNoLoop ==
    /\ op.name = "dijkstras"
    /\ op.args[1] = op.args[2]
    /\ ~HasEdge(nodes, op.args[1], op.args[1])

C11_ArbitraryNodeFailsOnEmpty ==
    op.name = "arbitrary_node" =>
        IF Len(nodes) = 0
        THEN op.panic /\ op.ret = None
        ELSE ~op.panic /\ op.ret = Some(0)

\* C12: every path dijkstras returns keeps the Path invariant: each
\* consecutive pair of its indices is a directed edge of the graph, every
\* index is within the pool, and no index occurs twice.
C12_PathInvariant ==
    path /= None =>
        LET p == path[1]
        IN  /\ \A i \in 1..(Len(p) - 1) : HasEdge(nodes, p[i], p[i + 1])
            /\ \A i \in 1..Len(p) : InPool(nodes, p[i])
            /\ NoDuplicates(p)

\* C12 witness: dijkstras returned a path of at least two indices.
C12_Witness ==
    /\ op.name = "dijkstras"
    /\ path /= None
    /\ Len(path[1]) >= 2

\* C13: a breadth-first traversal yields nodes in non-decreasing
\* discovery-layer order: when u is yielded before v, the hop distance from
\* start to u is at most that from start to v, edges back to start included.
C13_BreadthFirstLayerOrder ==
    bfs /= None =>
        \A a, b \in 1..Len(yielded) :
            a < b => Hops(nodes, walkStart[1], yielded[a])
                       <= Hops(nodes, walkStart[1], yielded[b])

\* C14: once the end node has been selected as the current node the main loop
\* of dijkstras stops: that iteration relaxes no edge (distance and
\* predecessors stay as they were) and no node is selected after it, whether
\* or not end has outgoing edges.
C14_StopsWhenEndSelected ==
    \A i \in 1..Len(trail) :
        (loop /= None /\ trail[i].next = loop[1].end) =>
            /\ i = Len(trail)
            /\ loop[1].st.distance = trail[i].st.distance
            /\ loop[1].st.predecessors = trail[i].st.predecessors

\* The last iteration changed a tentative distance only by setting an absent
\* one or by replacing one with a strictly smaller value.
OnlyLowered ==
    (loop /= None /\ trail /= <<>>) =>
        LET was == trail[Len(trail)].st.distance
            now == loop[1].st.distance
        IN  \A v \in Indices(nodes) :
                now[v] /= was[v] =>
                    /\ now[v] /= None
                    /\ was[v] = None \/ now[v][1] < was[v][1]

\* Each node removed from `remaining` with a known distance holds the least
\* total weight of a route from start, and its predecessor is the node before
\* it on a route of that weight.
SettledAreShortest ==
    loop /= None =>
        LET st == loop[1].st
            start == loop[1].start
        IN  \A v \in Indices(nodes) \ Range(st.remaining) :
                st.distance[v] /= None =>
                    /\ st.distance[v] = MinDist(nodes, start, v)
                    /\ IF v = start THEN st.predecessors[v] = None
                       ELSE /\ st.predecessors[v] /= None
                            /\ LET u == st.predecessors[v][1]
                               IN  /\ HasEdge(nodes, u, v)
                                   /\ u \notin Range(st.remaining)
                                   /\ st.distance[u] = MinDist(nodes, start, u)
                                   /\ st.distance[u][1] + Get(Edges(nodes, u), v)
                                        = st.distance[v][1]

\* Each selection took a candidate no other candidate compares Less than,
\* and of the candidates that compare Equal the one of lowest pool index.
LowestIndexOnTie ==
    \A i \in 1..Len(trail) :
        LET e == trail[i]
        IN  \A r \in Range(e.st.remaining) :
                LET c == Cmp(e.st.distance[r], e.st.distance[e.next])
                IN  /\ c /= "Less"
                    /\ c = "Equal" => e.next <= r

\* C15: in dijkstras (weights are u32, so non-negative) a tentative distance
\* is only set when absent or replaced by a strictly smaller value; at every
\* iteration each node removed from `remaining` with a known distance holds
\* its shortest distance from start, its predecessor on a shortest route; and
\* of candidates with equal tentative distance the lowest index is selected.
C15_RelaxationKeepsShortest ==
    OnlyLowered /\ SettledAreShortest /\ LowestIndexOnTie

\* C15 witness: the last iteration replaced a known distance by a smaller
\* one, reached over a node that was removed with its distance known.
C15_Witness ==
    /\ loop /= None
    /\ trail /= <<>>
    /\ \E v \in Indices(nodes) :
         LET was == trail[Len(trail)].st.distance[v]
         IN  /\ was /= None
             /\ loop[1].st.distance[v][1] < was[1]
             /\ loop[1].st.predecessors[v] = Some(trail[Len(trail)].next)
             /\ trail[Len(trail)].next /= loop[1].start

NextNames == {"DepthFirst::next", "BreadthFirst::next"}

\* The stack or queue of the live traversal.
Pending == IF dfs /= None THEN dfs[1].pending ELSE bfs[1].pending

\* A traversal yields at most pool length + 1 nodes; after that many, and
\* whenever next has returned nothing, its stack or queue is empty.
FiniteYields ==
    walkStart /= None =>
        /\ Len(yielded) <= Len(nodes) + 1
        /\ Len(yielded) = Len(nodes) + 1 => Pending = <<>>
        /\ (op.name \in NextNames /\ op.ret = None) => Pending = <<>>
        /\ (op.name \in NextNames /\ op.ret /= None) => yielded /= <<>>

\* After next has returned nothing, the next call of next returns nothing and
\* leaves the iterator as it is.
StaysEnded ==
    (op.name \in NextNames /\ op.ret = None /\ op'.name \in NextNames) =>
        /\ op'.ret = None
        /\ UNCHANGED <<dfs, bfs, yielded>>

\* Each iteration of the dijkstras loop removes exactly the selected node
\* from `remaining`, so there are at most pool-length iterations and after
\* that many `remaining` is empty.
OneRemovedPerIteration ==
    /\ Len(trail) <= Len(nodes)
    /\ \A i \in 1..Len(trail) :
         LET was == trail[i].st.remaining
             now == IF i < Len(trail) THEN Some(trail[i + 1].st.remaining)
                    ELSE IF loop /= None THEN Some(loop[1].st.remaining)
                    ELSE None
         IN  /\ Len(was) = Len(nodes) - (i - 1)
             /\ NoDuplicates(was)
             /\ trail[i].next \in Range(was)
             /\ now /= None =>
                  /\ Len(now[1]) = Len(was) - 1
                  /\ Range(now[1]) = Range(was) \ {trail[i].next}
    /\ (loop /= None /\ Len(trail) = Len(nodes)) => loop[1].st.remaining = <<>>

\* C16: every depth-first and breadth-first traversal is finite: after at
\* most pool length + 1 successful next calls the stack or queue is empty,
\* next returns nothing and keeps returning nothing; and the dijkstras loop
\* removes exactly one node from `remaining` per iteration, so it finishes
\* within pool-length iterations.
C16_TraversalsAndLoopFinish ==
    /\ [](FiniteYields /\ OneRemovedPerIteration)
    /\ [][StaysEnded]_vars

\* C16 witness: a traversal has yielded pool length + 1 nodes and its next
\* has then returned nothing.
C16_Witness ==
    /\ walkStart /= None
    /\ Len(nodes) >= 2
    /\ Len(yielded) = Len(nodes) + 1
    /\ op.name \in NextNames
    /\ op.ret = None

\* How often v occurs in seq.
Count(seq, v) == Cardinality({i \in 1..Len(seq) : seq[i] = v})

\* The visited set of the live traversal.
Visited == IF dfs /= None THEN dfs[1].visited ELSE bfs[1].visited

\* C17: in a depth-first or breadth-first traversal an index is marked
\* visited when it is pushed or enqueued (only the start is placed unmarked),
\* so the stack or queue never holds an index twice; every node other than
\* the start is yielded at most once and the start at most twice.
C17_MarkedWhenPushed ==
    walkStart /= None =>
        /\ NoDuplicates(Pending)
        /\ Range(Pending) \subseteq
              Visited \cup (IF yielded = <<>> THEN {walkStart[1]} ELSE {})
        /\ Visited \subseteq Range(Pending) \cup Range(yielded)
        /\ \A v \in Indices(nodes) :
              Count(yielded, v) <= (IF v = walkStart[1] THEN 2 ELSE 1)

\* C17 witness: a breadth-first traversal has yielded its start twice and
\* another node once.
C17_Witness ==
    /\ bfs /= None
    /\ Count(yielded, walkStart[1]) = 2
    /\ \E v \in Indices(nodes) : v /= walkStart[1] /\ Count(yielded, v) = 1

\* The destinations a successful connect call adds to node i's out-edges.
AddedTo(i) ==
    IF op.name \notin ConnectNames \/ op.panic THEN {}
    ELSE (IF op.args[1] = i THEN {op.args[2]} ELSE {})
         \cup (IF op.name \in UndirectedNames /\ op.args[2] = i
               THEN {op.args[1]} ELSE {})

StrictlyAscending(seq) == \A a, b \in 1..Len(seq) : a < b => seq[a] < seq[b]

\* C18: the neighbors iterator of a node yields exactly the destinations of
\* the node's out-edges (those the connect calls have given it), each once
\* and in strictly ascending index order, whatever the order of the connects.
C18_NeighborsAscending ==
    /\ \A i \in Indices(nodes) :
         /\ StrictlyAscending(Neighbors(nodes, i))
         /\ Range(Neighbors(nodes, i)) =
              (IF InPool(before, i) THEN Range(Neighbors(before, i)) ELSE {})
              \cup AddedTo(i)
    /\ (op.name = "neighbors" /\ ~op.panic) =>
         /\ nodes = before
         /\ StrictlyAscending(op.ret[1])
         /\ Range(op.ret[1]) = {v \in Indices(nodes) : HasEdge(nodes, op.args[1], v)}
         /\ Len(op.ret[1]) = Len(Edges(nodes, op.args[1]))

\* C18 witness: neighbors has run over a node with two out-edges and yielded
\* both destinations.
C18_Witness ==
    /\ op.name = "neighbors"
    /\ ~op.panic
    /\ Len(op.ret[1]) >= 2

ReadingNames ==
    {"find", "neighbors", "depth_first", "breadth_first", "DepthFirst::next",
     "BreadthFirst::next", "dijkstras", "len"}

\* The entries of edge map m other than that of key k.
Without(m, k) == SelectSeq(m, LAMBDA e : e[1] /= k)

\* C19: a successful connect_weighted(start, end, w) changes only the
\* start -> end entry of start's edge map: the pool length, every payload,
\* every other edge of start and all edges of every other node stay as they
\* were; find, neighbors, depth_first, breadth_first (and their next),
\* dijkstras and Path::len leave the whole graph as it was.
C19_ConnectChangesOneEntry ==
    /\ (op.name = "connect_weighted" /\ ~op.panic) =>
         LET start == op.args[1]
             end == op.args[2]
         IN  /\ Len(nodes) = Len(before)
             /\ \A i \in Indices(nodes) : Value(nodes, i) = Value(before, i)
             /\ \A i \in Indices(nodes) \ {start} :
                  Edges(nodes, i) = Edges(before, i)
             /\ Without(Edges(nodes, start), end)
                  = Without(Edges(before, start), end)
    /\ op.name \in ReadingNames => nodes = before

\* C19 witness: connect_weighted has added an edge to a node that already had
\* an edge to another destination.
C19_Witness ==
    /\ op.name = "connect_weighted"
    /\ ~op.panic
    /\ op.old = None
    /\ Len(Edges(before, op.args[1])) >= 1

=============================================================================
